---- MODULE Spec2Model ----
(***************************************************************************)
(* State-machine model of src/main.py: the Zendesk ticket exporter.        *)
(*                                                                         *)
(* One run of main() is modelled: credential check, interactive prompt,    *)
(* ZendeskExporter.get_tickets (cursor-following pagination),              *)
(* get_tickets_with_comments (one comment request per ticket) and          *)
(* export_to_csv.  The remote server, the user and the file system are     *)
(* the environment: the server's page chain is fixed when the run starts,  *)
(* every HTTP status, comment thread, user input and write outcome is an   *)
(* input chosen when the program asks for it.                              *)
(*                                                                         *)
(* Python values are tagged records (PyStr, PyInt, PyNone, PyList); a      *)
(* Python string is a sequence of text chunks, so that formatting and      *)
(* joining are computed, not assumed.                                      *)
(***************************************************************************)
EXTENDS Integers, Sequences, FiniteSets, TLC

VARIABLES
    env,              \* os.environ: each credential variable unset (PyNone), '' or set
    pages,            \* the server's page chain: <<[tickets, next_page]>>, URL i = page i
    pc,               \* position of main(): start, prompt, fetching, enriching, exited
    last_input,       \* the text last typed at the prompt (NoInput before any input)
    limit,            \* main's limit: PyNone or PyInt(n)
    next_page,        \* get_tickets' cursor: a URL (page number), 0 for None
    all_tickets,      \* get_tickets' accumulator
    pbar,             \* tqdm progress counter of get_tickets
    tickets,          \* main's tickets (the value get_tickets returned)
    idx,              \* position of the for loop of get_tickets_with_comments
    enriched_tickets, \* get_tickets_with_comments' accumulator
    csv,              \* the output file: NoFile, or [filename, header, rows]
    exit_code,        \* process exit status: PyNone while running, then PyInt(0) or PyInt(1)
    log               \* history: every request, pause, warning and write, in order

vars == <<env, pages, pc, last_input, limit, next_page, all_tickets, pbar,
          tickets, idx, enriched_tickets, csv, exit_code, log>>

----------------------------------------------------------------------------
(* Bounds of the model *)

MaxPages == 3       \* pages in the server's chain
MaxPageSize == 2    \* tickets in one page
MaxTickets == 3     \* tickets over the whole chain
MaxLimit == 3       \* largest number typed at the prompt
MaxComments == 3    \* comments in one returned thread
MaxRequests == 5    \* page requests followed along a chain that never ends
MaxLoopPages == 1   \* pages of a chain that never ends

----------------------------------------------------------------------------
(* Python values *)

PyNone == [type |-> "NoneType"]
PyStr(s) == [type |-> "str", val |-> s]
PyInt(n) == [type |-> "int", val |-> n]
PyList(l) == [type |-> "list", val |-> l]

\* bool(v): None, 0, '' and [] are falsy
Truthy(v) ==
    CASE v.type = "NoneType" -> FALSE
      [] v.type = "int" -> v.val # 0
      [] OTHER -> Len(v.val) > 0

Digit(d) == <<"0", "1", "2", "3", "4", "5", "6", "7", "8", "9">>[d + 1]

RECURSIVE NatToStr(_)
NatToStr(n) == IF n < 10 THEN <<Digit(n)>> ELSE NatToStr(n \div 10) \o <<Digit(n % 10)>>

\* str(v) as an f-string replacement field renders it
Format(v) ==
    CASE v.type = "NoneType" -> <<"None">>
      [] v.type = "int" -> IF v.val < 0 THEN <<"-">> \o NatToStr(-v.val) ELSE NatToStr(v.val)
      [] v.type = "str" -> v.val
      [] OTHER -> <<"[...]">>

\* d.get(key, default)
Get(d, key, default) == IF key \in DOMAIN d THEN d[key] ELSE default

\* s[:n] for n >= 0
Take(s, n) == IF n >= Len(s) THEN s ELSE SubSeq(s, 1, n)

\* s[1:]
DropFirst(s) == IF Len(s) = 0 THEN <<>> ELSE Tail(s)

RECURSIVE Join(_, _)
\* sep.join(parts)
Join(sep, parts) ==
    IF Len(parts) = 0 THEN <<>>
    ELSE IF Len(parts) = 1 THEN parts[1]
    ELSE parts[1] \o sep \o Join(sep, Tail(parts))

----------------------------------------------------------------------------
(* The environment: server data, user input, clock *)

CredentialNames == {"ZENDESK_SUBDOMAIN", "ZENDESK_EMAIL", "ZENDESK_API_TOKEN"}

OptionalFields == {"subject", "description", "status", "priority",
                   "requester_id", "assignee_id"}

\* The server's ticket number n.  Ids are unique; the optional fields are
\* present, absent or null depending on the ticket.
TicketId(n) == 100 + 7 * n

RawTicket(n) ==
    LET required == [id |-> PyInt(TicketId(n)),
                     created_at |-> PyStr(<<"2024-01-0", Digit(n % 10), "T00:00:00Z">>),
                     updated_at |-> PyStr(<<"2024-02-0", Digit(n % 10), "T00:00:00Z">>)]
        present == [subject |-> PyStr(<<"Subject ", Digit(n % 10)>>),
                    description |-> PyStr(<<"desc">>),
                    status |-> PyStr(<<"open">>),
                    priority |-> PyStr(<<"high">>),
                    requester_id |-> PyInt(5),
                    assignee_id |-> PyInt(7),
                    tags |-> PyList(<<"vip">>)]
        nulls == [k \in OptionalFields \cup {"tags"} |-> PyNone]
    IN CASE n % 3 = 1 -> required @@ present
         [] n % 3 = 2 -> required
         [] OTHER -> required @@ nulls

\* The j-th comment of the thread of the ticket with id tid
Comment(tid, j) ==
    [author_id |-> PyInt(tid + 10 * j),
     created_at |-> PyStr(<<"t", Digit((j - 1) % 10)>>),
     body |-> PyStr(IF j = 1 THEN <<"desc">> ELSE <<"reply ", Digit(j % 10)>>)]

Thread(tid, k) == [j \in 1..k |-> Comment(tid, j)]

RECURSIVE SumSeq(_)
SumSeq(s) == IF Len(s) = 0 THEN 0 ELSE Head(s) + SumSeq(Tail(s))

\* page sizes of the chains the server may hold
SizeSeqs ==
    {s \in UNION {[1..n -> 0..MaxPageSize] : n \in 1..MaxPages} : SumSeq(s) <= MaxTickets}

\* The chain with page sizes s whose last page's next_page is `last`
\* (0: null, the chain ends; i > 0: the URL of page i, the chain never ends).
\* Tickets are numbered in server order.
Chain(s, last) ==
    [i \in 1..Len(s) |->
        [tickets |-> [j \in 1..s[i] |-> RawTicket(SumSeq(SubSeq(s, 1, i - 1)) + j)],
         next_page |-> IF i < Len(s) THEN i + 1 ELSE last]]

\* the chains that end, and the chains whose last page leads back to the first
Chains == {Chain(s, 0) : s \in SizeSeqs} \cup
          {Chain(s, 1) : s \in {t \in SizeSeqs : Len(t) <= MaxLoopPages}}

\* what the user may type at the prompt
Inputs == {<<>>, <<" ">>, <<"x">>, <<"0">>, <<"-", "1">>, <<" ", "1", " ">>, <<"1", "0", "x">>}
          \cup {NatToStr(n) : n \in 1..MaxLimit}

Statuses == {200, 404}

Timestamps == {<<"20240101_000000">>}

----------------------------------------------------------------------------
(* Sentinels and program constants *)

NoFile == [type |-> "NoFile"]
\* no text typed yet: a text that is none of the inputs
NoInput == <<"<no input>">>
ValueError == [type |-> "ValueError"]

\* tickets.json?per_page=100: the URL get_tickets starts from is the chain's first page
FirstUrl == 1
\* requests' null next_page
NullUrl == 0
\* time.sleep(0.5), in milliseconds
PauseMs == 500
\* the only status taken as success
StatusOk == 200

Separator == <<"\n---\n">>

\* columns_to_export, in dict order: <<key, header>>
ColumnsToExport ==
    << <<"id", "Ticket ID">>, <<"created_at", "Created Date">>,
       <<"updated_at", "Last Updated">>, <<"subject", "Subject">>,
       <<"description", "Description">>, <<"status", "Status">>,
       <<"priority", "Priority">>, <<"requester_id", "Requester ID">>,
       <<"assignee_id", "Assignee ID">>, <<"tags", "Tags">>,
       <<"comments", "Additional Comments">> >>

----------------------------------------------------------------------------
(* Events of the history *)


PageEvent(url, status) == [kind |-> "page", url |-> url, status |-> status]
CommentEvent(tid, status, comments) ==
    [kind |-> "comment", id |-> tid, status |-> status, comments |-> comments]
SleepEvent == [kind |-> "sleep", ms |-> PauseMs]
WarningEvent(tid) == [kind |-> "warning", id |-> tid]
WriteEvent(filename, ok) == [kind |-> "write", filename |-> filename, ok |-> ok]

----------------------------------------------------------------------------
(* main: reading the limit *)

IsSpace(c) == c \in {" ", "\t", "\n"}
IsDigit(c) == c \in {"0", "1", "2", "3", "4", "5", "6", "7", "8", "9"}
DigitValue(c) == CHOOSE d \in 0..9 : Digit(d) = c

RECURSIVE StripLeft(_)
StripLeft(s) == IF Len(s) > 0 /\ IsSpace(Head(s)) THEN StripLeft(Tail(s)) ELSE s

RECURSIVE StripRight(_)
StripRight(s) ==
    IF Len(s) > 0 /\ IsSpace(s[Len(s)]) THEN StripRight(SubSeq(s, 1, Len(s) - 1)) ELSE s

\* str.strip()
Strip(s) == StripRight(StripLeft(s))

RECURSIVE DigitsValue(_)
DigitsValue(s) ==
    IF Len(s) = 0 THEN 0 ELSE 10 * DigitsValue(SubSeq(s, 1, Len(s) - 1)) + DigitValue(s[Len(s)])

\* int(s) for a stripped s: an optional sign and at least one digit, else ValueError
ParseInt(s) ==
    LET signed == Len(s) > 0 /\ s[1] \in {"-", "+"}
        digits == IF signed THEN Tail(s) ELSE s
    IN IF Len(digits) = 0 \/ \E i \in 1..Len(digits) : ~IsDigit(digits[i]) THEN ValueError
       ELSE IF signed /\ s[1] = "-" THEN PyInt(-DigitsValue(digits))
       ELSE PyInt(DigitsValue(digits))

\* mutant: zero is accepted as a limit
ReadLimitAcceptingZero(text) ==
    LET user_input == Strip(text)
        parsed == ParseInt(user_input)
    IN IF user_input = <<>> THEN PyNone
       ELSE IF parsed = ValueError THEN ValueError
       ELSE IF parsed.val < 0 THEN [type |-> "rejected"]
       ELSE parsed

\* One pass of the prompt loop: the limit the input is accepted as, or
\* ValueError / "rejected" when the prompt repeats.
ReadLimit(text) ==
    LET user_input == Strip(text)
        parsed == ParseInt(user_input)
    IN IF user_input = <<>> THEN PyNone
       ELSE IF parsed = ValueError THEN ValueError
       ELSE IF parsed.val <= 0 THEN [type |-> "rejected"]
       ELSE parsed

Accepted(v) == v.type \in {"NoneType", "int"}

----------------------------------------------------------------------------
(* ZendeskExporter.get_tickets *)

\* mutant: only server errors abort the listing
PageFailedOnServerErrorOnly(status) == status >= 500

\* if response.status_code != 200: raise
PageFailed(status) == status # StatusOk

\* mutant: the batch is put in front of the accumulated tickets
ExtendInFront(acc, batch) == batch \o acc

\* all_tickets.extend(tickets_batch)
Extend(acc, batch) == acc \o batch

\* mutant: the limit counts as reached only once it is exceeded
LimitReachedWhenExceeded(lim, acc) == Truthy(lim) /\ Len(acc) > lim.val

\* if limit and len(all_tickets) >= limit
LimitReached(lim, acc) == Truthy(lim) /\ Len(acc) >= lim.val

\* mutant: the accumulated tickets are returned without truncation
TruncateNothing(acc, lim) == acc

\* all_tickets[:limit]
Truncate(acc, lim) == Take(acc, lim.val)

\* mutant: the pause is taken after every page
PagePauseAlways(np) == TRUE

\* if next_page: time.sleep(0.5)
PagePause(np) == np # NullUrl

----------------------------------------------------------------------------
(* ZendeskExporter.get_ticket_comments, get_tickets_with_comments *)

\* if response.status_code != 200: warn and return []
CommentFailed(status) == status # StatusOk

\* mutant: the body is read whatever the status
GetTicketCommentsIgnoringStatus(status, body) == Get(body, "comments", PyList(<<>>)).val

\* the list get_ticket_comments returns for a response
GetTicketComments(status, body) ==
    IF CommentFailed(status) THEN <<>>
    ELSE Get(body, "comments", PyList(<<>>)).val

\* mutant: the first comment is kept
AdditionalCommentsKeepFirst(comments) == comments

\* comments[1:] if comments else []
AdditionalComments(comments) == IF Len(comments) > 0 THEN DropFirst(comments) ELSE <<>>

\* f"Comment by {author_id} at {created_at}:\n{body}"
FormatComment(comment) ==
    <<"Comment by ">> \o Format(comment.author_id) \o <<" at ">>
        \o Format(comment.created_at) \o <<":\n">> \o Format(comment.body)

\* '\n---\n'.join([...]) if additional_comments else ''
CommentsField(additional) ==
    IF Len(additional) > 0
    THEN Join(Separator, [j \in 1..Len(additional) |-> FormatComment(additional[j])])
    ELSE <<>>

\* the ticket_data dict
TicketData(ticket, comments) ==
    [id |-> ticket.id,
     created_at |-> ticket.created_at,
     updated_at |-> ticket.updated_at,
     subject |-> Get(ticket, "subject", PyStr(<<>>)),
     description |-> Get(ticket, "description", PyStr(<<>>)),
     status |-> Get(ticket, "status", PyStr(<<>>)),
     priority |-> Get(ticket, "priority", PyStr(<<>>)),
     requester_id |-> Get(ticket, "requester_id", PyStr(<<>>)),
     assignee_id |-> Get(ticket, "assignee_id", PyStr(<<>>)),
     tags |-> Get(ticket, "tags", PyList(<<>>)),
     comments |-> PyStr(CommentsField(AdditionalComments(comments)))]

\* mutant: the record is inserted in front
AppendRecordInFront(acc, ticket_data) == <<ticket_data>> \o acc

\* enriched_tickets.append(ticket_data)
AppendRecord(acc, ticket_data) == Append(acc, ticket_data)

\* mutant: no pause after a ticket that got no additional comments
PauseAfterTicketWithComments(ticket_data) ==
    IF ticket_data.comments.val = <<>> THEN <<>> ELSE <<SleepEvent>>

\* time.sleep(0.5) at the end of every iteration: the pauses taken after a record
PauseAfterTicket(ticket_data) == <<SleepEvent>>

\* the thread lengths answered: no comment, the first one only, and the
\* longest thread
ThreadLengths == {0, 1, MaxComments}

\* the bodies a comments request for ticket tid may be answered with
CommentBodies(tid) ==
    {[comments |-> PyList(Thread(tid, k))] : k \in ThreadLengths} \cup {<<>>}

CommentResponses(tid) ==
    {[status |-> StatusOk, body |-> b] : b \in CommentBodies(tid)} \cup
    {[status |-> st, body |-> b] :
        st \in Statuses \ {StatusOk},
        b \in {[error |-> PyStr(<<"RecordNotFound">>)],
               [comments |-> PyList(Thread(tid, MaxComments))]}}

----------------------------------------------------------------------------
(* ZendeskExporter.export_to_csv *)

\* pd.DataFrame(tickets).columns: the keys of the records (none for no records)
DataFrameColumns(records) == UNION {DOMAIN records[i] : i \in 1..Len(records)}

\* df[columns_to_export.keys()] raises KeyError when a column is missing
MissingColumns(records) ==
    {ColumnsToExport[c][1] : c \in 1..Len(ColumnsToExport)} \ DataFrameColumns(records)

Header == [c \in 1..Len(ColumnsToExport) |-> ColumnsToExport[c][2]]

Row(record) == [c \in 1..Len(ColumnsToExport) |-> record[ColumnsToExport[c][1]]]

Rows(records) == [i \in 1..Len(records) |-> Row(records[i])]

Filename(timestamp) == <<"zendesk_tickets_">> \o timestamp \o <<".csv">>

----------------------------------------------------------------------------
(* History *)

\* the events of one kind, in order
SelectKind(events, kind) ==
    LET OfKind(event) == event.kind = kind
    IN SelectSeq(events, OfKind)

PageRequests == SelectKind(log, "page")
CommentRequests == SelectKind(log, "comment")

----------------------------------------------------------------------------
(* The run *)

Init ==
    /\ env \in [CredentialNames -> {PyNone, PyStr(<<>>), PyStr(<<"secret">>)}]
    /\ pages \in Chains
    /\ pc = "start"
    /\ last_input = NoInput
    /\ limit = PyNone
    /\ next_page = NullUrl
    /\ all_tickets = <<>>
    /\ pbar = 0
    /\ tickets = <<>>
    /\ idx = 1
    /\ enriched_tickets = <<>>
    /\ csv = NoFile
    /\ exit_code = PyNone
    /\ log = <<>>

\* mutant: one credential is enough
AnyCredentialPresent(environ) == \E name \in CredentialNames : Truthy(environ[name])

\* all([SUBDOMAIN, EMAIL, API_TOKEN])
CredentialsPresent(environ) == \A name \in CredentialNames : Truthy(environ[name])

\* main, lines 177-187: sys.exit(1) unless every credential is set and non-empty
CheckCredentials ==
    /\ pc = "start"
    /\ IF CredentialsPresent(env)
       THEN /\ pc' = "prompt"
            /\ exit_code' = exit_code
       ELSE /\ pc' = "exited"
            /\ exit_code' = PyInt(1)
    /\ UNCHANGED <<env, pages, last_input, limit, next_page, all_tickets, pbar,
                   tickets, idx, enriched_tickets, csv, log>>

\* main, lines 190-209: one pass of the prompt loop; an accepted input
\* enters get_tickets (lines 32-36)
Prompt ==
    /\ pc = "prompt"
    /\ \E text \in Inputs :
        LET answer == ReadLimit(text)
        IN /\ last_input' = text
           /\ IF Accepted(answer)
              THEN /\ limit' = answer
                   /\ all_tickets' = <<>>
                   /\ next_page' = FirstUrl
                   /\ pc' = "fetching"
              ELSE UNCHANGED <<limit, all_tickets, next_page, pc>>
    /\ UNCHANGED <<env, pages, pbar, tickets, idx, enriched_tickets, csv, exit_code, log>>

\* mutant: the same page is requested again
NextCursorSamePage(url, data) == url

\* next_page = data.get('next_page')
NextCursor(url, data) == data.next_page

\* get_tickets, lines 39-62: one iteration of the while loop, the pause
\* included; leaving the loop returns to main (line 209), which enters
\* get_tickets_with_comments (lines 96-99)
PageRequest ==
    /\ pc = "fetching"
    /\ next_page # NullUrl
    /\ Len(PageRequests) < MaxRequests
    /\ \E status \in Statuses :
        LET data == pages[next_page]
            cursor == NextCursor(next_page, data)
            extended == Extend(all_tickets, data.tickets)
            request == PageEvent(next_page, status)
        IN IF PageFailed(status)
           THEN \* raise Exception: nothing catches it, the process dies
                /\ log' = Append(log, request)
                /\ pc' = "exited"
                /\ exit_code' = PyInt(1)
                /\ all_tickets' = <<>>
                /\ UNCHANGED <<next_page, pbar, tickets, idx, enriched_tickets>>
           ELSE /\ pbar' = pbar + Len(data.tickets)
                /\ exit_code' = exit_code
                /\ IF LimitReached(limit, extended)
                   THEN \* break, return all_tickets
                        /\ log' = Append(log, request)
                        /\ all_tickets' = Truncate(extended, limit)
                        /\ tickets' = Truncate(extended, limit)
                        /\ enriched_tickets' = <<>>
                        /\ idx' = 1
                        /\ pc' = "enriching"
                        /\ UNCHANGED next_page
                   ELSE /\ all_tickets' = extended
                        /\ next_page' = cursor
                        /\ log' = log \o <<request>>
                                      \o (IF PagePause(cursor)
                                          THEN <<SleepEvent>> ELSE <<>>)
                        /\ IF cursor # NullUrl
                           THEN \* the loop goes on
                                /\ pc' = "fetching"
                                /\ UNCHANGED <<tickets, idx, enriched_tickets>>
                           ELSE \* return all_tickets
                                /\ tickets' = extended
                                /\ enriched_tickets' = <<>>
                                /\ idx' = 1
                                /\ pc' = "enriching"
    /\ UNCHANGED <<env, pages, last_input, limit, csv>>

\* get_tickets_with_comments, lines 99-127: one iteration of the for loop:
\* the comment request for the next ticket (get_ticket_comments, lines
\* 76-83), its record and the pause
CommentRequest ==
    /\ pc = "enriching"
    /\ idx <= Len(tickets)
    /\ LET ticket == tickets[idx]
           tid == ticket.id.val
       IN \E response \in CommentResponses(tid) :
           LET comments == GetTicketComments(response.status, response.body)
               ticket_data == TicketData(ticket, comments)
           IN /\ log' = log \o <<CommentEvent(tid, response.status, comments)>>
                            \o (IF CommentFailed(response.status)
                                THEN <<WarningEvent(tid)>> ELSE <<>>)
                            \o PauseAfterTicket(ticket_data)
              /\ enriched_tickets' = AppendRecord(enriched_tickets, ticket_data)
    /\ idx' = idx + 1
    /\ UNCHANGED <<env, pages, pc, last_input, limit, next_page, all_tickets, pbar,
                   tickets, csv, exit_code>>

\* main, lines 213-217: get_tickets_with_comments returns, export_to_csv
\* (lines 144-168) writes the file and main ends
Export ==
    /\ pc = "enriching"
    /\ idx > Len(tickets)
    /\ \E timestamp \in Timestamps, writable \in BOOLEAN :
        LET filename == Filename(timestamp)
        IN IF MissingColumns(enriched_tickets) # {}
           THEN \* KeyError from df[...]: nothing catches it, the process dies
                /\ exit_code' = PyInt(1)
                /\ UNCHANGED <<csv, log>>
           ELSE IF ~writable
           THEN \* to_csv fails: nothing catches it, the process dies
                /\ exit_code' = PyInt(1)
                /\ log' = Append(log, WriteEvent(filename, FALSE))
                /\ UNCHANGED csv
           ELSE /\ csv' = [filename |-> filename, header |-> Header,
                           rows |-> Rows(enriched_tickets)]
                /\ log' = Append(log, WriteEvent(filename, TRUE))
                /\ exit_code' = PyInt(0)
    /\ pc' = "exited"
    /\ UNCHANGED <<env, pages, last_input, limit, next_page, all_tickets, pbar,
                   tickets, idx, enriched_tickets>>

Next ==
    \/ CheckCredentials
    \/ Prompt
    \/ PageRequest
    \/ CommentRequest
    \/ Export

Spec == Init /\ [][Next]_vars

\* The process is sequential and every request eventually returns: a loop
\* iteration or the export that can run does run. The prompt is left out:
\* the user may go on typing rejected inputs.
FairSpec == Spec /\ WF_vars(PageRequest) /\ WF_vars(CommentRequest) /\ WF_vars(Export)

----------------------------------------------------------------------------
(* Vocabulary of the properties *)

Min(a, b) == IF a <= b THEN a ELSE b

\* the chain ends: its last page carries a null next_page
ChainEnds == pages[Len(pages)].next_page = NullUrl

RECURSIVE Concat(_)
Concat(seqs) == IF Len(seqs) = 0 THEN <<>> ELSE Head(seqs) \o Concat(Tail(seqs))

\* every ticket of the chain, page after page
ServerTickets == Concat([i \in 1..Len(pages) |-> pages[i].tickets])

\* the URL of the k-th page request of a run in which no request fails
RECURSIVE UrlAt(_)
UrlAt(k) == IF k = 1 THEN FirstUrl ELSE pages[UrlAt(k - 1)].next_page

\* tickets held by the first k pages requested
RECURSIVE CumCount(_)
CumCount(k) == IF k = 0 THEN 0 ELSE CumCount(k - 1) + Len(pages[UrlAt(k)].tickets)

LastPageRequest == PageRequests[Len(PageRequests)]

\* a ticket-listing request was answered with a failure
ListingFailed == \E i \in 1..Len(log) : log[i].kind = "page" /\ log[i].status # 200

\* get_tickets has returned its list to main
GetTicketsReturned ==
    /\ pc \in {"enriching", "exited"}
    /\ Len(PageRequests) > 0
    /\ ~ListingFailed

PositiveLimit == limit.type = "int" /\ limit.val > 0

----------------------------------------------------------------------------
(* Properties *)

\* C1: with a positive limit L and a chain that ends, every page answered
\* with 200, get_tickets returns the first min(L, T) tickets of the in-order
\* concatenation of the pages, T being the number of tickets of the chain.
C1_LimitedFetch ==
    (GetTicketsReturned /\ PositiveLimit /\ ChainEnds) =>
        LET n == Min(limit.val, Len(ServerTickets))
        IN /\ Len(tickets) = n
           /\ \A i \in 1..n : tickets[i] = ServerTickets[i]

\* C1 witness: the limit cut the last fetched page: tickets received on the
\* second page were discarded.
C1_Witness ==
    /\ GetTicketsReturned /\ PositiveLimit /\ ChainEnds
    /\ Len(PageRequests) = 2
    /\ Len(tickets) = limit.val
    /\ pbar > Len(tickets)

\* C2: with limit=None and every page answered with 200, pages are requested
\* until one carries a null next_page, and the result is the concatenation
\* of all pages in page order and within-page order.
C2_UnlimitedFetch ==
    (GetTicketsReturned /\ limit = PyNone) =>
        LET requests == PageRequests
        IN /\ pages[requests[Len(requests)].url].next_page = NullUrl
           /\ Len(requests) = Len(pages)
           /\ \A i \in 1..Len(pages) : requests[i].url = i
           /\ tickets = ServerTickets

\* C2 witness: three tickets gathered over at least two pages.
C2_Witness ==
    /\ GetTicketsReturned /\ limit = PyNone
    /\ Len(PageRequests) >= 2
    /\ Len(tickets) = 3
    /\ Len(pages[1].tickets) > 0

\* C3: a non-200 answer to a ticket-listing request, on the first page or a
\* later one, aborts the run: the accumulated tickets are dropped, no
\* comment request is issued, no CSV is written, the exit code is nonzero
\* and nothing further happens.
C3_ListingFailureAborts ==
    ListingFailed =>
        /\ pc = "exited"
        /\ exit_code.type = "int" /\ exit_code.val # 0
        /\ log[Len(log)].kind = "page"
        /\ all_tickets = <<>> /\ tickets = <<>> /\ enriched_tickets = <<>>
        /\ CommentRequests = <<>>
        /\ SelectKind(log, "write") = <<>>
        /\ csv = NoFile
        /\ ~ENABLED Next

\* C3 witness: the listing failed after tickets had been accumulated.
C3_Witness ==
    /\ ListingFailed
    /\ Len(PageRequests) >= 2
    /\ pbar >= 2

\* get_tickets_with_comments has returned its list to main
EnrichmentReturned == pc = "exited" /\ GetTicketsReturned

\* C4: a non-200 answer to a ticket's comment request is recoverable: the
\* ticket still yields a record, whose comments field is the empty string;
\* every ticket gets its own comment request, whatever happened to the
\* earlier ones; the run goes on to the write step.
C4_CommentFailureRecoverable ==
    LET requests == CommentRequests
    IN /\ Len(requests) = Len(enriched_tickets)
       /\ \A i \in 1..Len(requests) :
           /\ requests[i].id = tickets[i].id.val
           /\ requests[i].status # 200 =>
               /\ enriched_tickets[i].id = tickets[i].id
               /\ enriched_tickets[i].comments = PyStr(<<>>)
       /\ pc = "enriching" => ENABLED Next
       /\ (EnrichmentReturned /\ Len(tickets) > 0) =>
           /\ Len(requests) = Len(tickets)
           /\ log[Len(log)].kind = "write"

\* C4 witness: the first ticket's comment request failed, the second
\* ticket got its own comments and the file was written.
C4_Witness ==
    /\ EnrichmentReturned
    /\ csv # NoFile
    /\ Len(CommentRequests) >= 2
    /\ CommentRequests[1].status # 200
    /\ CommentRequests[2].status = 200
    /\ Len(enriched_tickets[2].comments.val) > 0

\* C5: get_tickets_with_comments preserves length and order: record i is
\* the record of ticket i, and the returned list is as long as the input.
C5_EnrichPreservesOrder ==
    /\ Len(enriched_tickets) <= Len(tickets)
    /\ \A i \in 1..Len(enriched_tickets) : enriched_tickets[i].id = tickets[i].id
    /\ EnrichmentReturned => Len(enriched_tickets) = Len(tickets)

\* C5 witness: three tickets enriched, with failed and successful comment
\* requests among them.
C5_Witness ==
    /\ EnrichmentReturned
    /\ Len(enriched_tickets) = 3
    /\ \E i, j \in 1..3 : CommentRequests[i].status = 200 /\ CommentRequests[j].status # 200

RECURSIVE SplitOn(_, _)
\* the pieces of text between the occurrences of the chunk sep
SplitOn(text, sep) ==
    IF \A i \in 1..Len(text) : text[i] # sep THEN <<text>>
    ELSE LET at == CHOOSE i \in 1..Len(text) :
                       text[i] = sep /\ \A j \in 1..(i - 1) : text[j] # sep
         IN <<SubSeq(text, 1, at - 1)>> \o SplitOn(SubSeq(text, at + 1, Len(text)), sep)

\* the entry of one comment: its author_id, created_at and body
ExpectedEntry(comment) ==
    <<"Comment by ">> \o Format(comment.author_id) \o <<" at ">>
        \o comment.created_at.val \o <<":\n">> \o comment.body.val

\* C6: the comments field of a record is built from the returned comment
\* list without its first element: '' for zero or one comment, and for
\* k >= 2 comments exactly k-1 entries, in the order returned, joined by the
\* separator.
C6_FirstCommentDropped ==
    LET requests == CommentRequests
    IN \A i \in 1..Len(enriched_tickets) :
        LET returned == requests[i].comments
            k == Len(returned)
            field == enriched_tickets[i].comments
        IN /\ field.type = "str"
           /\ k <= 1 => field.val = <<>>
           /\ k >= 2 =>
                LET entries == SplitOn(field.val, "\n---\n")
                IN /\ Len(entries) = k - 1
                   /\ \A j \in 1..(k - 1) : entries[j] = ExpectedEntry(returned[j + 1])

\* C6 witness: records built from one comment and from three comments.
C6_Witness ==
    \E i, j \in 1..Len(enriched_tickets) :
        /\ Len(CommentRequests[i].comments) = 1
        /\ enriched_tickets[i].comments.val = <<>>
        /\ Len(CommentRequests[j].comments) = 3
        /\ Len(SplitOn(enriched_tickets[j].comments.val, "\n---\n")) = 2

\* the destination could not be written (to_csv raised)
WriteRefused == Len(log) > 0 /\ log[Len(log)].kind = "write" /\ ~log[Len(log)].ok

\* the header row of section 6 of the specification
FixedHeader ==
    <<"Ticket ID", "Created Date", "Last Updated", "Subject", "Description", "Status",
      "Priority", "Requester ID", "Assignee ID", "Tags", "Additional Comments">>

\* C7: export_to_csv writes the eleven-column header and one row per
\* record for every sequence of records, the empty one included, and the
\* run then ends successfully.
C7_ExportWritesEveryInput ==
    (EnrichmentReturned /\ ~WriteRefused) =>
        /\ csv # NoFile
        /\ csv.header = FixedHeader
        /\ Len(csv.rows) = Len(enriched_tickets)
        /\ exit_code = PyInt(0)

\* C7, the part the code keeps: with at least one record the file holds the
\* header and one row per record.
C7_ExportWritesNonEmptyInput ==
    (EnrichmentReturned /\ ~WriteRefused /\ Len(enriched_tickets) > 0) =>
        /\ csv # NoFile
        /\ csv.header = FixedHeader
        /\ Len(csv.rows) = Len(enriched_tickets)
        /\ \A i \in 1..Len(csv.rows) : csv.rows[i][1] = enriched_tickets[i].id
        /\ exit_code = PyInt(0)

\* C8: with a positive limit L no page is requested once the first pages
\* hold L tickets, even when the last page's next_page is not null: the
\* pages requested are the first k of the chain, k the smallest number with
\* at least L tickets in the first k pages, or the whole chain when L is
\* never reached.
C8_NoFetchPastLimit ==
    PositiveLimit =>
        LET requests == PageRequests
            n == Len(requests)
        IN /\ \A j \in 1..n : requests[j].url = UrlAt(j)
           /\ \A j \in 1..(n - 1) : CumCount(j) < limit.val
           /\ GetTicketsReturned =>
               \/ CumCount(n) >= limit.val
               \/ /\ pages[UrlAt(n)].next_page = NullUrl
                  /\ ChainEnds /\ n = Len(pages)

\* C8 witness: the limit was reached on the second page, whose next_page
\* is not null, and get_tickets returned.
C8_Witness ==
    /\ GetTicketsReturned /\ PositiveLimit
    /\ Len(PageRequests) = 2
    /\ CumCount(2) >= limit.val
    /\ pages[LastPageRequest.url].next_page # NullUrl

\* C9: in get_tickets a pause is taken exactly between successive page
\* requests: every page request but the first comes right after one pause
\* that follows the previous page request, and a pause that follows a page
\* request is followed by the next page request, so none follows the last.
C9_PauseBetweenPages ==
    \A i \in 1..Len(log) :
        /\ log[i].kind = "page" =>
            \/ i = 1
            \/ i >= 3 /\ log[i - 1].kind = "sleep" /\ log[i - 2].kind = "page"
        /\ (log[i].kind = "sleep" /\ i > 1 /\ log[i - 1].kind = "page") =>
            IF i < Len(log) THEN log[i + 1].kind = "page"
            ELSE pc = "fetching" /\ next_page # NullUrl

\* C9 witness: two pages with a pause between them, the limit reached on
\* the second page while its next_page is not null, and the enrichment
\* started right after it.
C9_Witness ==
    /\ GetTicketsReturned /\ PositiveLimit
    /\ Len(log) >= 4
    /\ log[1].kind = "page" /\ log[2].kind = "sleep" /\ log[3].kind = "page"
    /\ log[4].kind = "comment"
    /\ pages[log[3].url].next_page # NullUrl

\* C10: a pause lies between any two comment requests, whether the earlier
\* one failed or not, and between any two page requests.
C10_PauseBetweenSameKind ==
    \A i \in 1..Len(log) :
        log[i].kind \in {"page", "comment"} =>
            \A j \in (i + 1)..Len(log) :
                log[j].kind = log[i].kind =>
                    \E k \in (i + 1)..(j - 1) : log[k].kind = "sleep"

\* C10 witness: two page requests, then a failed comment request followed
\* by a second comment request.
C10_Witness ==
    /\ Len(PageRequests) >= 2
    /\ Len(CommentRequests) >= 2
    /\ CommentRequests[1].status # 200

\* the default value of an optional field of a record
EmptyValue(field) == IF field = "tags" THEN PyList(<<>>) ELSE PyStr(<<>>)

\* C11: in every record each optional field is present and never null: a
\* raw ticket that lacks the key, or holds null under it, gives the empty
\* string (the empty sequence for tags).
C11_OptionalFieldsNeverNull ==
    \A i \in 1..Len(enriched_tickets) :
        \A field \in OptionalFields \cup {"tags"} :
            /\ field \in DOMAIN enriched_tickets[i]
            /\ enriched_tickets[i][field] # PyNone
            /\ (field \notin DOMAIN tickets[i] \/ tickets[i][field] = PyNone) =>
                enriched_tickets[i][field] = EmptyValue(field)

\* C11, the part the code keeps: every optional field is a key of the
\* record, an absent key gives the empty value and a present one is passed
\* through unchanged, null included.
C11_AbsentFieldsDefaulted ==
    \A i \in 1..Len(enriched_tickets) :
        \A field \in OptionalFields \cup {"tags"} :
            /\ field \in DOMAIN enriched_tickets[i]
            /\ enriched_tickets[i][field] =
                 IF field \in DOMAIN tickets[i] THEN tickets[i][field] ELSE EmptyValue(field)

\* some credential is unset or empty
CredentialMissing == \E name \in CredentialNames : env[name] \in {PyNone, PyStr(<<>>)}

\* C12: with a credential missing or empty the process exits with a nonzero
\* code before the prompt and before any request; the exit code is 0 only
\* if every credential was present, no ticket-listing request failed and
\* the CSV was written.
C12_CredentialsChecked ==
    /\ CredentialMissing =>
        /\ pc \in {"start", "exited"}
        /\ pc = "exited" => (exit_code.type = "int" /\ exit_code.val # 0)
        /\ last_input = NoInput
        /\ log = <<>>
        /\ csv = NoFile
        /\ pc = "exited" => ~ENABLED Next
    /\ exit_code = PyInt(0) =>
        /\ ~CredentialMissing
        /\ ~ListingFailed
        /\ csv # NoFile
        /\ log[Len(log)] = WriteEvent(csv.filename, TRUE)

\* C12 witness: the run ended at the credential check because one
\* credential is the empty string, the other two being set.
C12_Witness ==
    /\ pc = "exited"
    /\ exit_code = PyInt(1)
    /\ env["ZENDESK_EMAIL"] = PyStr(<<>>)
    /\ \A name \in CredentialNames \ {"ZENDESK_EMAIL"} : Truthy(env[name])

\* the characters of a text that are not whitespace
NonSpace(text) == SelectSeq(text, LAMBDA c : c \notin {" ", "\t", "\n"})

\* the text is the decimal numeral of n, whitespace around it aside
Denotes(text, n) == NonSpace(text) = NatToStr(n)

\* C13: the prompt accepts only an empty (whitespace-only) input, giving
\* no limit, or a strictly positive integer, giving that limit; while an
\* input is rejected the prompt repeats with nothing else changed and no
\* request issued; every later state has limit None or limit >= 1.
C13_PromptAcceptsPositiveOrEmpty ==
    /\ pc = "prompt" =>
        /\ last_input = NoInput \/
             (NonSpace(last_input) # <<>> /\ \A n \in 1..MaxLimit : ~Denotes(last_input, n))
        /\ limit = PyNone /\ next_page = NullUrl /\ all_tickets = <<>> /\ pbar = 0
        /\ tickets = <<>> /\ idx = 1 /\ enriched_tickets = <<>>
        /\ csv = NoFile /\ exit_code = PyNone /\ log = <<>>
    /\ log # <<>> => last_input # NoInput
    /\ (pc \notin {"start", "prompt"} /\ last_input # NoInput) =>
        \/ limit = PyNone /\ NonSpace(last_input) = <<>>
        \/ /\ limit.type = "int"
           /\ limit.val >= 1
           /\ Denotes(last_input, limit.val)

\* C13 witness: the input "0" was rejected and the prompt is asking again.
C13_Witness == pc = "prompt" /\ last_input = <<"0">>

\* C14: there are no retries. The k-th page request is for the k-th URL of
\* the cursor chain and the k-th comment request for the k-th returned
\* ticket, so each is requested at most once (in a chain that ends, where
\* URLs and ticket ids do not repeat, no URL is requested twice); a failed
\* page request is the last event of the run, and a failed comment request
\* gives the empty comment list and is followed by the next ticket's.
C14_NoRetries ==
    LET page_requests == PageRequests
        comment_requests == CommentRequests
    IN /\ \A k \in 1..Len(page_requests) :
           /\ page_requests[k].url = UrlAt(k)
           /\ page_requests[k].status # 200 =>
               (k = Len(page_requests) /\ log[Len(log)] = page_requests[k])
       /\ Len(comment_requests) <= Len(tickets)
       /\ \A k \in 1..Len(comment_requests) :
           /\ comment_requests[k].id = tickets[k].id.val
           /\ comment_requests[k].status # 200 => comment_requests[k].comments = <<>>
       /\ ChainEnds =>
           /\ \A j, k \in 1..Len(page_requests) :
               j # k => page_requests[j].url # page_requests[k].url
           /\ \A j, k \in 1..Len(comment_requests) :
               j # k => comment_requests[j].id # comment_requests[k].id

\* C14 witness: two pages were fetched, the first ticket's comment request
\* failed and the next comment request is for the second ticket.
C14_Witness ==
    /\ ChainEnds
    /\ Len(PageRequests) >= 2
    /\ Len(CommentRequests) >= 2
    /\ CommentRequests[1].status # 200
    /\ CommentRequests[2].id = tickets[2].id.val

\* the requests and the write of the run, in the order they happened
Effects == SelectSeq(log, LAMBDA e : e.kind \in {"page", "comment", "write"})

\* C16: the run is strictly phased: all page requests come before all comment
\* requests, which come before the single CSV write; the k-th comment
\* request is for the k-th ticket get_tickets returned, none is issued for
\* a ticket the limit cut away, and a run that reaches the write step has
\* issued exactly P + N requests, for P pages fetched and N tickets returned.
C16_StrictPhases ==
    LET page_requests == PageRequests
        comment_requests == CommentRequests
        writes == SelectKind(log, "write")
    IN /\ Effects = page_requests \o comment_requests \o writes
       /\ Len(writes) <= 1
       /\ comment_requests # <<>> => GetTicketsReturned
       /\ writes # <<>> => EnrichmentReturned
       /\ Len(comment_requests) <= Len(tickets)
       /\ \A k \in 1..Len(comment_requests) : comment_requests[k].id = tickets[k].id.val
       /\ PositiveLimit => Len(tickets) <= limit.val
       /\ Len(tickets) <= pbar
       /\ EnrichmentReturned =>
           /\ Len(comment_requests) = Len(tickets)
           /\ Len(Effects) - Len(writes) = Len(page_requests) + Len(tickets)

\* C16 witness: a successful run of two pages whose last page was cut by the
\* limit: two tickets returned out of more received, four requests, a write.
C16_Witness ==
    /\ exit_code = PyInt(0)
    /\ Len(PageRequests) = 2
    /\ Len(tickets) = 2
    /\ pbar > 2
    /\ Len(Effects) = 5

\* the number of tickets on the page fetched last
LastPageSize == Len(pages[LastPageRequest.url].tickets)

\* C17, as stated: with a positive limit L the accumulated count is below L
\* whenever a page request is issued, and the tickets received exceed the
\* tickets returned by less than the size of the last fetched page.
C17_ExcessBelowLastPage ==
    PositiveLimit =>
        /\ pc = "fetching" => Len(all_tickets) < limit.val
        /\ GetTicketsReturned => pbar - Len(tickets) < LastPageSize

\* C17, amended: with a positive limit L the accumulated count is below L
\* whenever a page request is issued; the tickets received exceed the
\* tickets returned only when the limit was reached, and then by less than
\* the size of the last fetched page; when the last page is empty nothing
\* was received in excess.
C17_ExcessWithinLastPage ==
    PositiveLimit =>
        /\ pc = "fetching" => (Len(all_tickets) < limit.val /\ pbar = Len(all_tickets))
        /\ GetTicketsReturned =>
            LET excess == pbar - Len(tickets)
            IN /\ excess >= 0
               /\ excess > 0 => (Len(tickets) = limit.val /\ excess < LastPageSize)
               /\ LastPageSize = 0 => excess = 0

\* C17 witness: the limit was reached on the second page and part of that
\* page was received but not returned.
C17_Witness ==
    /\ PositiveLimit /\ GetTicketsReturned
    /\ Len(PageRequests) = 2
    /\ pbar - Len(tickets) = 1
    /\ LastPageSize = 2

AllPagesNonEmpty == \A i \in 1..Len(pages) : Len(pages[i].tickets) > 0

AllPagesEmpty == \A i \in 1..Len(pages) : Len(pages[i].tickets) = 0

\* get_tickets has been entered
Listing == pc \notin {"start", "prompt"} /\ ~CredentialMissing

\* C18: every request eventually returning, on a chain that ends get_tickets
\* issues at most as many requests as the chain has pages and the whole run
\* terminates; with a positive limit L and non-empty pages it issues at
\* most L requests and the run terminates even on a chain that never ends;
\* on a chain that never ends, with limit None or with empty pages, the
\* loop always has a next page to request and get_tickets never returns
\* (only a failed request stops the run).
C18_Termination ==
    /\ [](ChainEnds => Len(PageRequests) <= Len(pages))
    /\ []((PositiveLimit /\ AllPagesNonEmpty) => Len(PageRequests) <= limit.val)
    /\ (pc = "fetching" /\ (ChainEnds \/ (PositiveLimit /\ AllPagesNonEmpty)))
           ~> (pc = "exited")
    /\ []((Listing /\ ~ChainEnds /\ (limit = PyNone \/ AllPagesEmpty)) =>
            /\ pc = "fetching" => next_page # NullUrl
            /\ pc # "enriching"
            /\ pc = "exited" => ListingFailed)

\* C18 witness: on a chain that never ends, a limit of two or more stopped
\* the listing after exactly that many page requests and the run ended.
C18_Witness ==
    /\ ~ChainEnds /\ PositiveLimit /\ AllPagesNonEmpty
    /\ limit.val >= 2
    /\ Len(PageRequests) = limit.val
    /\ pc = "exited" /\ ~ListingFailed

\* what happened after get_tickets returned: the events after the last
\* page request
EnrichmentLog ==
    LET last == CHOOSE i \in 1..Len(log) :
                    log[i].kind = "page" /\ \A j \in (i + 1)..Len(log) : log[j].kind # "page"
    IN SubSeq(log, last + 1, Len(log))

\* C19: get_tickets_with_comments pauses exactly once per input ticket,
\* right after the ticket has been handled, whether its comment request
\* succeeded or failed (then after the warning) and also after the last
\* ticket: N pauses for N tickets, none for an empty input.
C19_OnePausePerTicket ==
    GetTicketsReturned =>
        LET events == EnrichmentLog
            pauses == SelectKind(events, "sleep")
        IN /\ Len(pauses) = Len(enriched_tickets)
           /\ Len(pauses) = Len(SelectKind(events, "comment"))
           /\ \A i \in 1..Len(events) :
               /\ events[i].kind = "comment" =>
                    IF events[i].status = 200
                    THEN i + 1 <= Len(events) /\ events[i + 1].kind = "sleep"
                    ELSE /\ i + 2 <= Len(events)
                         /\ events[i + 1].kind = "warning"
                         /\ events[i + 2].kind = "sleep"
               /\ events[i].kind = "sleep" =>
                    /\ i > 1
                    /\ events[i - 1].kind \in {"comment", "warning"}
                    /\ i < Len(events) => events[i + 1].kind \in {"comment", "write"}
           /\ EnrichmentReturned => Len(pauses) = Len(tickets)
           /\ tickets = <<>> => pauses = <<>>

\* C19 witness: three tickets were enriched, the comment request of the
\* last one failed, and three pauses were taken, the last after the warning.
C19_Witness ==
    /\ EnrichmentReturned
    /\ Len(tickets) = 3
    /\ CommentRequests[3].status # 200
    /\ Len(SelectKind(EnrichmentLog, "sleep")) = 3
    /\ \E i \in 2..Len(log) : log[i].kind = "sleep" /\ log[i - 1] = WarningEvent(tickets[3].id.val)

====
